---- MODULE Spec2Model ----
(***************************************************************************)
(* The schedule viewer script (gtfsscheduleviewer/files/index.js) as a     *)
(* state machine.  JavaScript is single threaded, so every event handler   *)
(* and every response callback runs to completion and is one action.  The  *)
(* requests sent by downloadUrl and not yet answered are the bag pending;  *)
(* a response is delivered to any one of them, in any order.               *)
(*                                                                         *)
(* A marker held by stopMarkersSelected or stopMarkersBackground is known  *)
(* by its key and by whether its map is set ("on").  A marker or polyline  *)
(* whose map is set and that no collection of the script holds any more is *)
(* counted in strayMarkers or strayPolylines: the script can never reach   *)
(* it again.  An object that is neither held nor on the map is garbage.    *)
(*                                                                         *)
(* Abstractions: a position (LatLng) is the id of the stop it belongs to;  *)
(* a LatLngBounds is the set of positions it was extended with, null being *)
(* the empty set; label texts, icons and the map viewport are left out,    *)
(* and the info window is known by the stop it shows.                      *)
(***************************************************************************)
EXTENDS Naturals, Sequences, FiniteSets, Bags, TLC

\* ---------------------------------------------------------------- bounds
MaxWaiting == 1
MaxPolylines == 2
MaxDivs == 3

\* ------------------------------------------------------ the server's data
Stops == {"s1", "s2"}
Trips == {"A", "B"}

\* /json/tripstoptimes: the stops of a trip, in order
TripStops(t) == IF t = "A" THEN <<"s1", "s2">> ELSE IF t = "B" THEN <<"s2">> ELSE <<>>

\* lists of stops.txt rows a stop query may answer with
StopLists == {<<>>, <<"s1">>, <<"s2">>, <<"s1", "s2">>, <<"s2", "s1">>, <<"s1", "s1">>}

\* /json/routes answers with the feed's routes
RouteLists == {<<"R1", "R2">>}

\* /json/routepatterns: a list of patterns, each the list of its trips
PatternLists == {<<>>, <<<<"A", "B">>>>, <<<<>>, <<"B">>>>}

OK == 200
Codes == {OK, 500}

\* ---------------------------------------------------------------- state
VARIABLES
  stopMarkersSelected,    \* stopId -> marker, stops that are part of a trip etc
  stopMarkersBackground,  \* stopId -> marker, stops of the passive search
  strayMarkers,           \* bag of markers on the map that neither map holds
  existingPolylines,      \* list of polylines
  strayPolylines,         \* bag of polylines on the map that the list lacks
  boundsOfPolyLine,       \* {} is null
  selectedRoute,          \* "" is null
  routeList,              \* children of the routeList element
  bottombar,              \* [display, html] of the bottombar element
  infoWindow,             \* <<>> closed, or <<stopId>> of the marker it is on
  edit,                   \* [visibility, status] of edit and edit_status
  forbid_editing,
  pending,                \* bag of requests sent and not yet answered
  lastTrip,               \* history: argument of the last selectTrip call
  stopTimesHandled,       \* history: trips whose stop times were displayed
                          \* since the last selectTrip call
  labeledMarker,          \* the fields of a LabeledMarker object
  mapOverlays,            \* the overlays the map holds: the marker or none
  markerPane,             \* div id -> label div, children of the marker pane
  divListeners,           \* div id -> events with a DOM listener on the div
  divsCreated,            \* number of label divs created so far
  copyResult              \* what the last call of copy returned

mapVars == <<stopMarkersSelected, stopMarkersBackground, strayMarkers,
             existingPolylines, strayPolylines, boundsOfPolyLine>>
domVars == <<selectedRoute, routeList, bottombar, infoWindow, edit>>
histVars == <<lastTrip, stopTimesHandled>>
labelVars == <<labeledMarker, mapOverlays, markerPane, divListeners,
               divsCreated, copyResult>>
vars == <<mapVars, domVars, forbid_editing, pending, histVars, labelVars>>

\* --------------------------------------------------------------- helpers
Min(S) == CHOOSE x \in S : \A y \in S : x <= y
Remove(f, k) == [x \in DOMAIN f \ {k} |-> f[x]]
Put(f, k, v) == [x \in DOMAIN f \cup {k} |-> IF x = k THEN v ELSE f[x]]
EmptyMap == [x \in {} |-> 0]
One(x) == SetToBag({x})

\* a new marker or polyline: its map is set; old (history): it was on the
\* map when the map last moved
NewObject == [on |-> TRUE, old |-> FALSE]
SetMapNull(o) == [o EXCEPT !.on = FALSE]

\* what addStopMarker returns: the marker of a stop, selected or background
Marker(stopId, selected) == [stopId |-> stopId, selected |-> selected]
NoMarker == Marker("", FALSE)

\* a request: the endpoint, its id parameter (of the marker its callback
\* closes over, the id of the stop), and (history) whether the last move of
\* the map sent it ("latest"), an earlier move ("earlier") or none ("")
Request(kind, id) == [kind |-> kind, id |-> id, move |-> ""]

\* the script's map state as one value, threaded through the handlers;
\* threw: an error ended the handler, full: the model is out of polylines
MapState ==
  [sel |-> stopMarkersSelected, bg |-> stopMarkersBackground,
   stray |-> strayMarkers, polys |-> existingPolylines,
   strayPolys |-> strayPolylines, bounds |-> boundsOfPolyLine,
   threw |-> FALSE, full |-> FALSE]

SetMapState(m) ==
  /\ stopMarkersSelected' = m.sel
  /\ stopMarkersBackground' = m.bg
  /\ strayMarkers' = m.stray
  /\ existingPolylines' = m.polys
  /\ strayPolylines' = m.strayPolys
  /\ boundsOfPolyLine' = m.bounds

\* ------------------------------------------------------- map operations
\* the markers of the stopId -> marker map f that are on the map, as a bag
OnMapMarkers(f, selected) ==
  SetToBag({[stopId |-> s, selected |-> selected, old |-> f[s].old] :
              s \in {x \in DOMAIN f : f[x].on}})

\* the polylines of the list that are on the map, as a bag
OnMapPolylines(polys) ==
  LET on == {i \in 1..Len(polys) : polys[i].on}
  IN [o \in {polys[i] : i \in on} |-> Cardinality({i \in on : polys[i] = o})]

\* every marker and polyline held gets setMap(null); then the collections
\* are replaced by empty ones
clearMap(m) ==
  LET sel == [s \in DOMAIN m.sel |-> SetMapNull(m.sel[s])]
      bg == [s \in DOMAIN m.bg |-> SetMapNull(m.bg[s])]
      polys == [i \in 1..Len(m.polys) |-> SetMapNull(m.polys[i])]
  IN [m EXCEPT !.bounds = {},
               !.stray = @ (+) OnMapMarkers(sel, TRUE) (+) OnMapMarkers(bg, FALSE),
               !.strayPolys = @ (+) OnMapPolylines(polys),
               !.sel = EmptyMap,
               !.bg = EmptyMap,
               !.polys = <<>>]

expandBoundingBox(m, latLng) == [m EXCEPT !.bounds = @ \cup {latLng}]

\* mutant: the entry is deleted and the marker keeps its map
removeBackground_keepsMap(m, stopId) ==
  [m EXCEPT !.stray = @ (+) OnMapMarkers([s \in {stopId} |-> m.bg[s]], FALSE),
            !.bg = Remove(m.bg, stopId)]

\* stopMarkersBackground[stopId].setMap(null) and the delete of the entry
removeBackground(m, stopId) ==
  LET bg == [m.bg EXCEPT ![stopId] = SetMapNull(@)]
  IN [m EXCEPT !.stray = @ (+) OnMapMarkers([s \in {stopId} |-> bg[s]], FALSE),
               !.bg = Remove(bg, stopId)]

\* text: a label text was passed.  getTextThrows: the marker class of the
\* maps library has no getText method.  Returns the state and the marker.
addStopMarker(m, stopId, selected, text, getTextThrows) ==
  IF stopId \in DOMAIN m.sel
  THEN [m |-> IF text /\ getTextThrows THEN [m EXCEPT !.threw = TRUE] ELSE m,
        marker |-> Marker(stopId, TRUE)]
  ELSE IF stopId \in DOMAIN m.bg /\ ~selected
  THEN [m |-> m, marker |-> Marker(stopId, FALSE)]
  ELSE
    LET m1 == IF stopId \in DOMAIN m.bg THEN removeBackground(m, stopId) ELSE m
    IN [m |-> IF selected
              THEN [m1 EXCEPT !.sel = Put(@, stopId, NewObject)]
              ELSE [m1 EXCEPT !.bg = Put(@, stopId, NewObject)],
        marker |-> Marker(stopId, selected)]

addStopMarkerFromList(m, list, selected, text, getTextThrows) ==
  addStopMarker(m, list, selected, text, getTextThrows)

\* the loop of callbackDisplayStops over several stops, from index i on
RECURSIVE addSelectedStops(_, _, _)
addSelectedStops(m, stops, i) ==
  IF i > Len(stops) THEN m
  ELSE addSelectedStops(addStopMarkerFromList(m, stops[i], TRUE, FALSE, FALSE).m,
                        stops, i + 1)

\* Returns the state and the marker whose info window is fetched (NoMarker
\* when none is).
callbackDisplayStops(m, stops, responseCode) ==
  IF responseCode # OK THEN [m |-> m, fetch |-> NoMarker]
  ELSE LET m0 == clearMap(m)
       IN IF Len(stops) = 1
          THEN LET r == addStopMarkerFromList(m0, stops[1], TRUE, FALSE, FALSE)
               IN [m |-> r.m, fetch |-> r.marker]
          ELSE [m |-> addSelectedStops(m0, stops, 1), fetch |-> NoMarker]

\* the first loop of callbackDisplayStopsBackground, from index i on; old is
\* the set of keys of oldStopMarkers
RECURSIVE addBackgroundStops(_, _, _, _)
addBackgroundStops(m, old, stops, i) ==
  IF i > Len(stops) THEN [m |-> m, old |-> old]
  ELSE LET r == addStopMarkerFromList(m, stops[i], FALSE, FALSE, FALSE)
       IN addBackgroundStops(r.m, old \ {r.marker.stopId}, stops, i + 1)

\* mutant: the markers left in oldStopMarkers keep their map
removeOldStopMarkers_none(m, old) == m

\* the last loop of callbackDisplayStopsBackground: oldStopMarkers holds the
\* markers stopMarkersBackground held, which stay in stopMarkersBackground
removeOldStopMarkers(m, old) ==
  [m EXCEPT !.bg = [s \in DOMAIN m.bg |->
                      IF s \in old THEN SetMapNull(m.bg[s]) ELSE m.bg[s]]]

\* mutant: the map is cleared first, as callbackDisplayStops does
callbackDisplayStopsBackground_clears(m, stops, responseCode) ==
  IF responseCode # OK THEN m
  ELSE LET m0 == clearMap(m)
           r == addBackgroundStops(m0, DOMAIN m0.bg, stops, 1)
       IN removeOldStopMarkers(r.m, r.old)

callbackDisplayStopsBackground(m, stops, responseCode) ==
  IF responseCode # OK THEN m
  ELSE LET r == addBackgroundStops(m, DOMAIN m.bg, stops, 1)
       IN removeOldStopMarkers(r.m, r.old)

\* the loop of displayTripStopTimes, from index i on; times: the arrival
\* times are given, so every marker gets a label
RECURSIVE displayTripStopTimesFrom(_, _, _, _, _)
displayTripStopTimesFrom(m, stops, i, times, getTextThrows) ==
  IF i > Len(stops) \/ m.threw THEN m
  ELSE LET r == addStopMarkerFromList(m, stops[i], TRUE, times, getTextThrows)
       IN displayTripStopTimesFrom(
            IF r.m.threw THEN r.m ELSE expandBoundingBox(r.m, r.marker.stopId),
            stops, i + 1, times, getTextThrows)

\* mutant: the loop starts at the second stop
displayTripStopTimes_skipsFirst(m, stops, times, getTextThrows) ==
  displayTripStopTimesFrom(m, stops, 2, times, getTextThrows)

displayTripStopTimes(m, stops, times, getTextThrows) ==
  displayTripStopTimesFrom(m, stops, 1, times, getTextThrows)

\* body: [null, stops, times]
callbackDisplayTripStopTimes(m, body, responseCode, getTextThrows) ==
  IF responseCode # OK THEN m
  ELSE IF body.null THEN m
  ELSE displayTripStopTimes(m, body.stops, body.times, getTextThrows)

RECURSIVE expandAll(_, _, _)
expandAll(m, points, i) ==
  IF i > Len(points) THEN m
  ELSE expandAll(expandBoundingBox(m, points[i]), points, i + 1)

\* fitBoundsThrows: map.fitBounds raises an error when handed null.  The
\* polyline is on the map from its construction and is pushed on
\* existingPolylines only after the call of fitBounds.
displayPolyLine(m, points, fitBoundsThrows) ==
  LET m1 == expandAll(m, points, 1)
  IN IF Len(m1.polys) + BagCardinality(m1.strayPolys) >= MaxPolylines
     THEN [m1 EXCEPT !.full = TRUE]
     ELSE IF m1.bounds = {} /\ fitBoundsThrows
     THEN [m1 EXCEPT !.strayPolys = @ (+) One(NewObject), !.threw = TRUE]
     ELSE [m1 EXCEPT !.polys = Append(@, NewObject)]

\* body: [null, points]
callbackDisplayTripPolyLine(m, body, responseCode, fitBoundsThrows) ==
  IF responseCode # OK THEN m
  ELSE IF body.null THEN m
  ELSE displayPolyLine(m, body.points, fitBoundsThrows)

\* what is on the map
MarkersOnMap(stopId) ==
  (IF stopId \in DOMAIN stopMarkersSelected /\ stopMarkersSelected[stopId].on
   THEN 1 ELSE 0)
  + (IF stopId \in DOMAIN stopMarkersBackground /\ stopMarkersBackground[stopId].on
     THEN 1 ELSE 0)
  + BagCardinality([x \in {y \in DOMAIN strayMarkers : y.stopId = stopId}
                      |-> strayMarkers[x]])

\* the markers a user can click or drag
Clickable ==
  {Marker(s, TRUE) : s \in {x \in DOMAIN stopMarkersSelected : stopMarkersSelected[x].on}}
  \cup {Marker(s, FALSE) :
          s \in {x \in DOMAIN stopMarkersBackground : stopMarkersBackground[x].on}}
  \cup {Marker(x.stopId, x.selected) : x \in DOMAIN strayMarkers}

\* ------------------------------------------------------------ the page
\* routeList holds one routeContainer per route: the id of the route, the
\* class of its route_<id> element and the tripInfo sections appended to it.
\* A tripInfo section is a list of patternSections, each a list of trip
\* spans [tripId, className].

\* mutant: the error branch is passed and the list is built from the data
callbackDisplayRoutes_rebuilds(rl, routes, responseCode) ==
  [i \in 1..Len(routes) |->
     [routeId |-> routes[i], className |-> "routeChoice", children |-> <<>>]]

\* line 376 evaluates patternDiv.appendChild(div): patternDiv is a global
\* only once callbackDisplayPatterns has run, and div is declared nowhere
\* in the script, so that a ReferenceError is raised before anything is
\* appended; the handler ends there.
callbackDisplayRoutes(rl, routes, responseCode) ==
  IF responseCode # OK THEN rl
  ELSE [i \in 1..Len(routes) |->
          [routeId |-> routes[i], className |-> "routeChoice", children |-> <<>>]]

\* document.getElementById("tripInfo"): the container holding the first
\* tripInfo section in document order, 0 when there is none
FirstTripInfo(rl) ==
  LET cs == {c \in 1..Len(rl) : rl[c].children # <<>>}
  IN IF cs = {} THEN 0 ELSE Min(cs)

\* document.getElementById("route_" + routeId), as an index, 0 for null
RouteIndex(rl, routeId) ==
  LET cs == {c \in 1..Len(rl) : rl[c].routeId = routeId}
  IN IF cs = {} THEN 0 ELSE Min(cs)

\* mutant: the classes of the other routes are left as they are
selectRoute_keepsClasses(rl, routeId) ==
  LET c0 == FirstTripInfo(rl)
      c1 == RouteIndex(rl, routeId)
  IN [c \in 1..Len(rl) |->
        [routeId |-> rl[c].routeId,
         className |-> IF c = c1 THEN "routeChoiceSelected" ELSE rl[c].className,
         children |-> IF c = c0 THEN Tail(rl[c].children) ELSE rl[c].children]]

\* selectRoute up to the call of fetchPatterns
selectRoute(rl, routeId) ==
  LET c0 == FirstTripInfo(rl)
      c1 == RouteIndex(rl, routeId)
  IN [c \in 1..Len(rl) |->
        [routeId |-> rl[c].routeId,
         className |-> IF c = c1 THEN "routeChoiceSelected" ELSE "routeChoice",
         children |-> IF c = c0 THEN Tail(rl[c].children) ELSE rl[c].children]]

\* paths <<container, section, pattern, span>> of the trip spans
SpanPaths(rl) ==
  UNION {UNION {UNION {{<<c, k, p, j>> : j \in 1..Len(rl[c].children[k][p])} :
                       p \in 1..Len(rl[c].children[k])} :
                k \in 1..Len(rl[c].children)} :
         c \in 1..Len(rl)}

Before(p, q) ==
  \E k \in 1..4 : p[k] < q[k] /\ \A j \in 1..(k - 1) : p[j] = q[j]

\* document.getElementById("trip_" + tripId): the first span of that id in
\* document order, <<>> for null
TripSpan(rl, tripId) ==
  LET ps == {p \in SpanPaths(rl) :
               rl[p[1]].children[p[2]][p[3]][p[4]].tripId = tripId}
  IN IF ps = {} THEN <<>>
     ELSE CHOOSE p \in ps : \A q \in ps \ {p} : Before(p, q)

\* the class changes of selectTrip
selectTripSpans(rl, tripId) ==
  LET c0 == FirstTripInfo(rl)
      sp == TripSpan(rl, tripId)
  IN [c \in 1..Len(rl) |->
       [rl[c] EXCEPT !.children =
          [k \in 1..Len(rl[c].children) |->
            [p \in 1..Len(rl[c].children[k]) |->
              [j \in 1..Len(rl[c].children[k][p]) |->
                [tripId |-> rl[c].children[k][p][j].tripId,
                 className |->
                   IF sp = <<c, k, p, j>> THEN "tripChoiceSelected"
                   ELSE IF c = c0 /\ k = 1 THEN "tripChoice"
                   ELSE rl[c].children[k][p][j].className]]]]]]

\* the requests of selectTrip, as a bag
TripRequests(tripId) ==
  SetToBag({Request("tripstoptimes", tripId)})
  (+) SetToBag({Request("tripshape", tripId)})
  (+) SetToBag({Request("triprows", tripId)})

\* the tripInfo div callbackDisplayPatterns builds
TripInfoDiv(patterns) ==
  [i \in 1..Len(patterns) |->
     [j \in 1..Len(patterns[i]) |->
        [tripId |-> patterns[i][j], className |-> "tripChoice"]]]

\* the local variables of callbackDisplayPatterns after its loops; "null"
\* is the text encodeURIComponent makes of null
FirstTripOf(patterns) ==
  IF Len(patterns) > 0 /\ Len(patterns[1]) > 0 THEN patterns[1][1] ELSE "null"

TripIdSet(patterns) == \E i \in 1..Len(patterns) : Len(patterns[i]) > 0

\* what callbackDisplayPatterns does before it calls selectTrip: the new
\* route list, the map state, and whether and with what selectTrip is called
callbackDisplayPatterns(rl, m, selRoute, patterns, responseCode) ==
  IF responseCode # OK
  THEN [rl |-> rl, m |-> m, call |-> FALSE, trip |-> "null"]
  ELSE LET m1 == clearMap(m)
           c == RouteIndex(rl, selRoute)
       IN IF c = 0   \* route is null: appendChild raises a TypeError
          THEN [rl |-> rl, m |-> m1, call |-> FALSE, trip |-> "null"]
          ELSE [rl |-> [rl EXCEPT ![c].children =
                                     Append(@, TripInfoDiv(patterns))],
                m |-> m1,
                call |-> TripIdSet(patterns),
                trip |-> FirstTripOf(patterns)]

\* mutant: the response code is not looked at
callbackDisplayTripRows_anyCode(bb, rowsNull, responseCode, tripId) ==
  IF rowsNull THEN bb ELSE [display |-> "block", html |-> tripId]

\* callbackDisplayTripRows: the bottombar afterwards; rowsNull: the response
\* evaluates to null
callbackDisplayTripRows(bb, rowsNull, responseCode, tripId) ==
  IF responseCode # OK THEN bb
  ELSE IF rowsNull THEN bb
  ELSE [display |-> "block", html |-> tripId]

\* the info window afterwards: it shows the stop of the marker
callbackDisplayStopInfoWindow(iw, stopId, responseCode) ==
  IF responseCode # OK THEN iw ELSE <<stopId>>

\* the callbacks of changeStopLocation and saveData: the new edit_status
editStatusCallback(status, data, responseCode) == data

\* the text the server answers an edit request with
StatusTexts(kind, responseCode) ==
  IF responseCode # OK THEN {"Internal Server Error"}
  ELSE IF kind = "savedata" THEN {"Data saved"} ELSE {"Stop moved"}

\* ---------------------------------------------------- the labeled marker
\* Values of the script: undefined, and the texts "true" and "false" for the
\* booleans, so that an option holds a text whatever its type; a GSize or a
\* GLatLng is a pair, and <<>> is the label offset that is not given.
Undefined == "undefined"
Falsy(v) == v \in {Undefined, "", "false"}
OrElse(v, default) == IF Falsy(v) THEN default ELSE v

\* an object without properties, and the read of a property
UndefinedObject == [undefined |-> TRUE]
Prop(obj, name) == IF name \in DOMAIN obj THEN obj[name] ELSE UndefinedObject

\* the options and positions markers are constructed with
LabelOptions ==
  [labelText : {Undefined, "", "7:30"},
   labelClass : {Undefined, "tooltip"},
   labelOffset : {<<>>, <<10, 20>>},
   clickable : {Undefined, "false", "true"},
   draggable : {Undefined, "true"}]
LatLngs == {<<0, 0>>, <<1, 2>>}
\* the pixels the projection of the map gives for a position
DivPixels == {<<0, 0>>, <<5, 5>>}
eventPassthrus ==
  {"click", "dblclick", "mousedown", "mouseup", "mouseover", "mouseout"}

\* new LabeledMarker(latlng, opt_opts): threw when reading a property of
\* undefined options raised a TypeError, else the fields of the new object;
\* div_ 0 is no div
LabeledMarker(latlng, opt_opts) ==
  IF "labelText" \notin DOMAIN opt_opts
  THEN [threw |-> TRUE, this |-> UndefinedObject]
  ELSE [threw |-> FALSE,
        this |->
          [latlng_ |-> latlng,
           opts_ |-> [opt_opts EXCEPT
                        !.draggable = IF Falsy(@) THEN @ ELSE "false"],
           labelText_ |-> OrElse(opt_opts.labelText, ""),
           labelClass_ |-> OrElse(opt_opts.labelClass, "markerLabel"),
           labelOffset_ |-> IF opt_opts.labelOffset = <<>> THEN <<0, 0>>
                            ELSE opt_opts.labelOffset,
           clickable_ |-> OrElse(opt_opts.clickable, "true"),
           div_ |-> 0]]

\* LabeledMarker.prototype.copy
copy(this) == LabeledMarker(this.latlng_, Prop(this, "opt_opts_"))

\* copy has not been called
NoCopy == [threw |-> FALSE, this |-> UndefinedObject]

\* the label div initialize creates
LabelDiv(this) ==
  [className |-> this.labelClass_, innerHTML |-> this.labelText_, style |-> <<>>]

\* ------------------------------------------------------------- requests
Has(r) == BagIn(r, pending)
Answered(r) == pending (-) SetToBag({r})
\* the user acts while at most MaxWaiting requests are unanswered
Room == BagCardinality(pending) <= MaxWaiting

\* downloadUrl
Send(bag, r) == bag (+) SetToBag({r})

\* ----------------------------------------------------------------- Init
\* the state when load() has returned: the stops in the bounds and the
\* routes are being fetched
Init ==
  /\ stopMarkersSelected = EmptyMap
  /\ stopMarkersBackground = EmptyMap
  /\ strayMarkers = EmptyBag
  /\ existingPolylines = <<>>
  /\ strayPolylines = EmptyBag
  /\ boundsOfPolyLine = {}
  /\ selectedRoute = ""
  /\ routeList = <<>>
  /\ bottombar = [display |-> "none", html |-> ""]
  /\ infoWindow = <<>>
  /\ edit = [visibility |-> "hidden", status |-> ""]
  /\ forbid_editing \in BOOLEAN
  /\ pending = Send(Send(EmptyBag, Request("boundboxstops", "")),
                    Request("routes", ""))
  /\ lastTrip = ""
  /\ stopTimesHandled = <<>>
  /\ labeledMarker = UndefinedObject
  /\ mapOverlays = {}
  /\ markerPane = EmptyMap
  /\ divListeners = EmptyMap
  /\ divsCreated = 0
  /\ copyResult = NoCopy

\* ---------------------------------------------------------- user actions
\* history: the requests of earlier moves are no longer the latest, and what
\* is on the map now was there when the map last moved
Earlier(bag) ==
  LET E(r) == IF r.move = "latest" THEN [r EXCEPT !.move = "earlier"] ELSE r
  IN [q \in {E(r) : r \in DOMAIN bag} |->
        IF q.move = "earlier"
        THEN (IF q \in DOMAIN bag THEN bag[q] ELSE 0)
             + (IF [q EXCEPT !.move = "latest"] \in DOMAIN bag
                THEN bag[[q EXCEPT !.move = "latest"]] ELSE 0)
        ELSE bag[q]]

Old(o) == [o EXCEPT !.old = o.on]

OldBag(bag) ==
  LET O(x) == [x EXCEPT !.old = TRUE]
  IN [y \in {O(x) : x \in DOMAIN bag} |->
        (IF y \in DOMAIN bag THEN bag[y] ELSE 0)
        + (IF [y EXCEPT !.old = FALSE] \in DOMAIN bag
           THEN bag[[y EXCEPT !.old = FALSE]] ELSE 0)]

\* track: the history of the move is recorded
callbackMoveEnd(track) ==
  /\ Room
  /\ IF track
     THEN /\ pending' = Send(Earlier(pending),
                   [Request("boundboxstops", "") EXCEPT !.move = "latest"])
          /\ stopMarkersSelected' =
                [s \in DOMAIN stopMarkersSelected |-> Old(stopMarkersSelected[s])]
          /\ stopMarkersBackground' =
                [s \in DOMAIN stopMarkersBackground |-> Old(stopMarkersBackground[s])]
          /\ existingPolylines' =
                [i \in 1..Len(existingPolylines) |-> Old(existingPolylines[i])]
          /\ strayMarkers' = OldBag(strayMarkers)
          /\ strayPolylines' = OldBag(strayPolylines)
     ELSE /\ pending' = Send(pending, Request("boundboxstops", ""))
          /\ UNCHANGED <<stopMarkersSelected, stopMarkersBackground,
                         existingPolylines, strayMarkers, strayPolylines>>
  /\ UNCHANGED <<boundsOfPolyLine, domVars, forbid_editing, labelVars, histVars>>

stopTextSearchSubmit ==
  /\ Room
  /\ pending' = Send(pending, Request("stopsearch", ""))
  /\ UNCHANGED <<mapVars, domVars, forbid_editing, labelVars, histVars>>

\* selectTrip, called with the route list rl, the map state m and the bag
\* of requests bag in place
\* track: the history of the call is recorded
selectTrip(tripId, rl, m, bag, track) ==
  /\ routeList' = selectTripSpans(rl, tripId)
  /\ SetMapState(clearMap(m))
  /\ pending' = bag (+) TripRequests(tripId)
  /\ lastTrip' = IF track THEN tripId ELSE lastTrip
  /\ stopTimesHandled' = <<>>

tripTextSearchSubmit(text, track) ==
  /\ Room
  /\ selectTrip(text, routeList, MapState, pending, track)
  /\ UNCHANGED <<selectedRoute, bottombar, infoWindow, edit, forbid_editing, labelVars>>

\* click on a trip span of an expanded route
ClickTrip(p, track) ==
  /\ p \in SpanPaths(routeList)
  /\ Room
  /\ selectTrip(routeList[p[1]].children[p[2]][p[3]][p[4]].tripId,
                routeList, MapState, pending, track)
  /\ UNCHANGED <<selectedRoute, bottombar, infoWindow, edit, forbid_editing, labelVars>>

\* click on a route of the list.  timeThrows: the time input has seconds,
\* which parseTimeInput adds to an undeclared variable, so that fetchPatterns
\* raises an error before it sends the request
ClickRoute(c, timeThrows) ==
  /\ c \in 1..Len(routeList)
  /\ Room
  /\ routeList' = selectRoute(routeList, routeList[c].routeId)
  /\ selectedRoute' = routeList[c].routeId
  /\ pending' = IF timeThrows THEN pending
                ELSE Send(pending, Request("routepatterns", routeList[c].routeId))
  /\ UNCHANGED <<mapVars, bottombar, infoWindow, edit, forbid_editing, labelVars, histVars>>

\* click on a marker: fetchStopInfoWindow
ClickMarker(marker) ==
  /\ marker \in Clickable
  /\ Room
  /\ pending' = Send(pending, Request("stoptrips", marker.stopId))
  /\ UNCHANGED <<mapVars, domVars, forbid_editing, labelVars, histVars>>

\* the dragend listener of a marker
DragEnd(marker) ==
  /\ marker \in Clickable
  /\ ~forbid_editing
  /\ Room
  /\ edit' = [visibility |-> "visible", status |-> "updating..."]
  /\ pending' = Send(pending, Request("setstoplocation", marker.stopId))
  /\ UNCHANGED <<mapVars, selectedRoute, routeList, bottombar, infoWindow,
                 forbid_editing, labelVars, histVars>>

saveData ==
  /\ Room
  /\ pending' = Send(pending, Request("savedata", ""))
  /\ UNCHANGED <<mapVars, domVars, forbid_editing, labelVars, histVars>>

\* ------------------------------------------------------------ responses
\* xhr.onload of the request r: its callback runs with the response

StopsBackgroundResponse(r, responseCode, stops) ==
  /\ Has(r) /\ r.kind = "boundboxstops"
  /\ LET m == callbackDisplayStopsBackground(MapState, stops, responseCode)
     IN ~m.full /\ SetMapState(m)
  /\ pending' = Answered(r)
  /\ UNCHANGED <<domVars, forbid_editing, labelVars, histVars>>

StopsResponse(r, responseCode, stops, timeThrows) ==
  /\ Has(r) /\ r.kind = "stopsearch"
  /\ LET res == callbackDisplayStops(MapState, stops, responseCode)
     IN /\ SetMapState(res.m)
        /\ pending' = IF res.fetch = NoMarker \/ timeThrows THEN Answered(r)
                      ELSE Send(Answered(r), Request("stoptrips", res.fetch.stopId))
  /\ UNCHANGED <<domVars, forbid_editing, labelVars, histVars>>

RoutesResponse(r, responseCode, routes) ==
  /\ Has(r) /\ r.kind = "routes"
  /\ routeList' = callbackDisplayRoutes(routeList, routes, responseCode)
  /\ pending' = Answered(r)
  /\ UNCHANGED <<mapVars, selectedRoute, bottombar, infoWindow, edit,
                 forbid_editing, labelVars, histVars>>

PatternsResponse(r, responseCode, patterns, track) ==
  /\ Has(r) /\ r.kind = "routepatterns"
  /\ LET res == callbackDisplayPatterns(routeList, MapState, selectedRoute,
                                        patterns, responseCode)
     IN IF res.call
        THEN selectTrip(res.trip, res.rl, res.m, Answered(r), track)
        ELSE /\ routeList' = res.rl
             /\ SetMapState(res.m)
             /\ pending' = Answered(r)
             /\ UNCHANGED histVars
  /\ UNCHANGED <<selectedRoute, bottombar, infoWindow, edit, forbid_editing, labelVars>>

TripStopTimesResponse(r, responseCode, body, getTextThrows, track) ==
  /\ Has(r) /\ r.kind = "tripstoptimes"
  /\ LET m == callbackDisplayTripStopTimes(MapState, body, responseCode,
                                           getTextThrows)
     IN ~m.full /\ SetMapState(m)
  /\ pending' = Answered(r)
  /\ stopTimesHandled' = IF track /\ responseCode = OK /\ ~body.null
                         THEN Append(stopTimesHandled, r.id)
                         ELSE stopTimesHandled
  /\ UNCHANGED <<domVars, forbid_editing, labelVars, lastTrip>>

TripPolyLineResponse(r, responseCode, body, fitBoundsThrows) ==
  /\ Has(r) /\ r.kind = "tripshape"
  /\ LET m == callbackDisplayTripPolyLine(MapState, body, responseCode,
                                          fitBoundsThrows)
     IN ~m.full /\ SetMapState(m)
  /\ pending' = Answered(r)
  /\ UNCHANGED <<domVars, forbid_editing, labelVars, histVars>>

TripRowsResponse(r, responseCode, rowsNull) ==
  /\ Has(r) /\ r.kind = "triprows"
  /\ bottombar' = callbackDisplayTripRows(bottombar, rowsNull, responseCode, r.id)
  /\ pending' = Answered(r)
  /\ UNCHANGED <<mapVars, selectedRoute, routeList, infoWindow, edit,
                 forbid_editing, labelVars, histVars>>

StopInfoWindowResponse(r, responseCode) ==
  /\ Has(r) /\ r.kind = "stoptrips"
  /\ infoWindow' = callbackDisplayStopInfoWindow(infoWindow, r.id, responseCode)
  /\ pending' = Answered(r)
  /\ UNCHANGED <<mapVars, selectedRoute, routeList, bottombar, edit,
                 forbid_editing, labelVars, histVars>>

EditResponse(r, responseCode, data) ==
  /\ Has(r) /\ r.kind \in {"setstoplocation", "savedata"}
  /\ edit' = [edit EXCEPT !.status = editStatusCallback(@, data, responseCode)]
  /\ pending' = Answered(r)
  /\ UNCHANGED <<mapVars, selectedRoute, routeList, bottombar, infoWindow,
                 forbid_editing, labelVars, histVars>>

\* mutant: the callback runs with an empty text
NetworkError_callsBack(r) ==
  /\ Has(r)
  /\ pending' = Answered(r)
  /\ edit' = [edit EXCEPT !.status = ""]
  /\ UNCHANGED <<mapVars, selectedRoute, routeList, bottombar, infoWindow,
                 forbid_editing, labelVars, histVars>>

\* xhr.onerror: the error is logged and the callback never runs
NetworkError(r) ==
  /\ Has(r)
  /\ pending' = Answered(r)
  /\ UNCHANGED <<mapVars, domVars, forbid_editing, labelVars, histVars>>

\* ------------------------------------------------- labeled marker steps
Constructed == "latlng_" \in DOMAIN labeledMarker
scriptVars == <<mapVars, domVars, forbid_editing, pending, histVars>>

NewLabeledMarker(latlng, opt_opts) ==
  /\ ~Constructed
  /\ labeledMarker' = LabeledMarker(latlng, opt_opts).this
  /\ UNCHANGED <<scriptVars, mapOverlays, markerPane, divListeners,
                 divsCreated, copyResult>>

\* the map adds the marker and calls initialize
initialize ==
  /\ Constructed /\ mapOverlays = {}
  /\ divsCreated < MaxDivs
  /\ LET div == divsCreated + 1
     IN /\ divsCreated' = div
        /\ labeledMarker' = [labeledMarker EXCEPT !.div_ = div]
        /\ markerPane' = Put(markerPane, div, LabelDiv(labeledMarker))
        /\ divListeners' = IF Falsy(labeledMarker.clickable_) THEN divListeners
                           ELSE Put(divListeners, div, eventPassthrus)
  /\ mapOverlays' = {"LabeledMarker"}
  /\ UNCHANGED <<scriptVars, copyResult>>

\* the map redraws an overlay it holds; p: fromLatLngToDivPixel(latlng_).
\* With no div the write of div_.style raises a TypeError.
redraw(p) ==
  /\ Constructed /\ mapOverlays # {}
  /\ markerPane' =
       IF labeledMarker.div_ = 0 THEN markerPane
       ELSE [markerPane EXCEPT ![labeledMarker.div_].style =
               <<p[1] + labeledMarker.labelOffset_[1],
                 p[2] + labeledMarker.labelOffset_[2]>>]
  /\ UNCHANGED <<scriptVars, labeledMarker, mapOverlays, divListeners,
                 divsCreated, copyResult>>

\* mutant: the div stays in the pane
remove_keepsDiv ==
  /\ Constructed /\ mapOverlays # {}
  /\ divListeners' = Remove(divListeners, labeledMarker.div_)
  /\ markerPane' = markerPane
  /\ labeledMarker' = [labeledMarker EXCEPT !.div_ = 0]
  /\ mapOverlays' = {}
  /\ UNCHANGED <<scriptVars, divsCreated, copyResult>>

\* the map removes the marker and calls remove
remove ==
  /\ Constructed /\ mapOverlays # {}
  /\ divListeners' = Remove(divListeners, labeledMarker.div_)
  /\ markerPane' = Remove(markerPane, labeledMarker.div_)
  /\ labeledMarker' = [labeledMarker EXCEPT !.div_ = 0]
  /\ mapOverlays' = {}
  /\ UNCHANGED <<scriptVars, divsCreated, copyResult>>

\* the map copies its overlays
CopyOverlay ==
  /\ Constructed
  /\ copyResult' = copy(labeledMarker)
  /\ UNCHANGED <<scriptVars, labeledMarker, mapOverlays, markerPane,
                 divListeners, divsCreated>>

\* the bodies the server answers with; what comes with an error is not read
StopBodies(code) == IF code = OK THEN StopLists ELSE {<<>>}
PatternBodies(code) == IF code = OK THEN PatternLists ELSE {<<>>}
StopTimesBodies(tripId, code) ==
  {[null |-> TRUE, stops |-> <<>>, times |-> FALSE]}
  \cup IF code # OK THEN {}
       ELSE {[null |-> FALSE, stops |-> TripStops(tripId), times |-> t] : t \in BOOLEAN}

ShapeBodies(tripId, code) ==
  {[null |-> TRUE, points |-> <<>>]}
  \cup IF code # OK THEN {}
       ELSE {[null |-> FALSE, points |-> pts] : pts \in {TripStops(tripId), <<>>}}

Requests == BagToSet(pending)

\* ------------------------------------------------------- specifications
\* Every specification has the same initial states and takes its steps from
\* the same actions; each takes the actions its claims are about.  A request
\* whose callback a specification leaves out ends in a network error.

\* the whole script
Next ==
  \/ callbackMoveEnd(TRUE)
  \/ stopTextSearchSubmit
  \/ \E t \in Trips : tripTextSearchSubmit(t, TRUE)
  \/ \E p \in SpanPaths(routeList) : ClickTrip(p, TRUE)
  \/ \E c \in 1..Len(routeList), timeThrows \in BOOLEAN : ClickRoute(c, timeThrows)
  \/ \E marker \in Clickable : ClickMarker(marker)
  \/ \E marker \in Clickable : DragEnd(marker)
  \/ saveData
  \/ \E r \in Requests, code \in Codes : \E stops \in StopBodies(code) :
        StopsBackgroundResponse(r, code, stops)
  \/ \E r \in Requests, code \in Codes, timeThrows \in BOOLEAN :
        \E stops \in StopBodies(code) : StopsResponse(r, code, stops, timeThrows)
  \/ \E r \in Requests, code \in Codes, routes \in RouteLists :
        RoutesResponse(r, code, routes)
  \/ \E r \in Requests, code \in Codes : \E patterns \in PatternBodies(code) :
        PatternsResponse(r, code, patterns, TRUE)
  \/ \E r \in Requests, code \in Codes, getTextThrows \in BOOLEAN :
        \E body \in StopTimesBodies(r.id, code) :
           TripStopTimesResponse(r, code, body, getTextThrows, TRUE)
  \/ \E r \in Requests, code \in Codes, fitBoundsThrows \in BOOLEAN :
        \E body \in ShapeBodies(r.id, code) :
           TripPolyLineResponse(r, code, body, fitBoundsThrows)
  \/ \E r \in Requests, code \in Codes, rowsNull \in BOOLEAN :
        TripRowsResponse(r, code, rowsNull)
  \/ \E r \in Requests, code \in Codes : StopInfoWindowResponse(r, code)
  \/ \E r \in Requests, code \in Codes :
        \E data \in StatusTexts(r.kind, code) : EditResponse(r, code, data)
  \/ \E r \in Requests : NetworkError(r)

Spec == Init /\ [][Next]_vars

\* a feed opened for viewing only, and one opened for editing
ViewInit == Init /\ forbid_editing = TRUE
EditInit == Init /\ forbid_editing = FALSE

\* the requests of the endpoints in kinds
Of(kinds) == {r \in Requests : r.kind \in kinds}

\* trips and map moves, with their history
TripNext ==
  \/ callbackMoveEnd(TRUE)
  \/ \E t \in Trips : tripTextSearchSubmit(t, TRUE)
  \/ \E r \in Requests, code \in Codes : \E stops \in StopBodies(code) :
        StopsBackgroundResponse(r, code, stops)
  \/ \E r \in Requests, code \in Codes, getTextThrows \in BOOLEAN :
        \E body \in StopTimesBodies(r.id, code) :
           TripStopTimesResponse(r, code, body, getTextThrows, TRUE)
  \/ \E r \in Requests, code \in Codes, fitBoundsThrows \in BOOLEAN :
        \E body \in ShapeBodies(r.id, code) :
           TripPolyLineResponse(r, code, body, fitBoundsThrows)
  \/ \E r \in Requests, code \in Codes, rowsNull \in BOOLEAN :
        TripRowsResponse(r, code, rowsNull)
  \/ \E r \in Of({"routes"}) : NetworkError(r)

TripSpec == ViewInit /\ [][TripNext]_vars

\* everything that adds or removes a marker
MarkerNext ==
  \/ callbackMoveEnd(FALSE)
  \/ stopTextSearchSubmit
  \/ \E t \in Trips : tripTextSearchSubmit(t, FALSE)
  \/ \E p \in SpanPaths(routeList) : ClickTrip(p, FALSE)
  \/ \E c \in 1..Len(routeList), timeThrows \in BOOLEAN : ClickRoute(c, timeThrows)
  \/ \E r \in Requests, code \in Codes : \E stops \in StopBodies(code) :
        StopsBackgroundResponse(r, code, stops)
  \/ \E r \in Requests, code \in Codes, timeThrows \in BOOLEAN :
        \E stops \in StopBodies(code) : StopsResponse(r, code, stops, timeThrows)
  \/ \E r \in Requests, code \in Codes, routes \in RouteLists :
        RoutesResponse(r, code, routes)
  \/ \E r \in Requests, code \in Codes : \E patterns \in PatternBodies(code) :
        PatternsResponse(r, code, patterns, FALSE)
  \/ \E r \in Requests, code \in Codes, getTextThrows \in BOOLEAN :
        \E body \in StopTimesBodies(r.id, code) :
           TripStopTimesResponse(r, code, body, getTextThrows, FALSE)
  \/ \E r \in Of({"tripshape", "triprows", "stoptrips"}) : NetworkError(r)

MarkerSpec == ViewInit /\ [][MarkerNext]_vars

\* the route list
RouteNext ==
  \/ \E c \in 1..Len(routeList), timeThrows \in BOOLEAN : ClickRoute(c, timeThrows)
  \/ \E p \in SpanPaths(routeList) : ClickTrip(p, FALSE)
  \/ \E r \in Requests, code \in Codes, routes \in RouteLists :
        RoutesResponse(r, code, routes)
  \/ \E r \in Requests, code \in Codes : \E patterns \in PatternBodies(code) :
        PatternsResponse(r, code, patterns, FALSE)
  \/ \E r \in Of({"boundboxstops", "tripstoptimes", "tripshape", "triprows"}) :
        NetworkError(r)

RouteSpec == ViewInit /\ [][RouteNext]_vars

\* every callback that checks the response code, on a feed of one stop, one
\* route and one trip
CallbackNext ==
  \/ callbackMoveEnd(FALSE)
  \/ stopTextSearchSubmit
  \/ \E c \in 1..Len(routeList) : ClickRoute(c, FALSE)
  \/ \E r \in Requests, code \in Codes :
        StopsBackgroundResponse(r, code, <<"s2">>)
  \/ \E r \in Requests, code \in Codes :
        StopsResponse(r, code, <<"s2">>, FALSE)
  \/ \E r \in Requests, code \in Codes : RoutesResponse(r, code, <<"R1">>)
  \/ \E r \in Requests, code \in Codes :
        PatternsResponse(r, code, <<<<"B">>>>, FALSE)
  \/ \E r \in Requests, code \in Codes :
        TripStopTimesResponse(r, code,
           [null |-> FALSE, stops |-> TripStops(r.id), times |-> TRUE], FALSE, FALSE)
  \/ \E r \in Requests, code \in Codes :
        TripPolyLineResponse(r, code,
           [null |-> FALSE, points |-> TripStops(r.id)], FALSE)
  \/ \E r \in Requests, code \in Codes : TripRowsResponse(r, code, FALSE)
  \/ \E r \in Requests, code \in Codes : StopInfoWindowResponse(r, code)

CallbackSpec == ViewInit /\ [][CallbackNext]_vars

\* the edits of stop locations
EditNext ==
  \/ \E marker \in Clickable : DragEnd(marker)
  \/ saveData
  \/ \E r \in Requests, code \in Codes : \E stops \in StopBodies(code) :
        StopsBackgroundResponse(r, code, stops)
  \/ \E r \in Requests, code \in Codes :
        \E data \in StatusTexts(r.kind, code) : EditResponse(r, code, data)
  \/ \E r \in Requests : NetworkError(r)

EditSpec == EditInit /\ [][EditNext]_vars

\* a labeled marker on a map
LabelNext ==
  \/ \E latlng \in LatLngs, opt_opts \in LabelOptions :
        NewLabeledMarker(latlng, opt_opts)
  \/ initialize
  \/ \E p \in DivPixels : redraw(p)
  \/ remove
  \/ CopyOverlay

LabelSpec == ViewInit /\ [][LabelNext]_vars

\* ----------------------------------------------------------- properties
SelectedOnMap == {s \in DOMAIN stopMarkersSelected : stopMarkersSelected[s].on}
BackgroundOnMap == {s \in DOMAIN stopMarkersBackground : stopMarkersBackground[s].on}
PolylinesOnMap ==
  Cardinality({i \in 1..Len(existingPolylines) : existingPolylines[i].on})
  + BagCardinality(strayPolylines)
InSeq(x, seq) == \E i \in 1..Len(seq) : seq[i] = x

\* C1: in every reachable state at most one marker per stop id is on the
\* map, selected, background and stray markers counted together.
C1_OneMarkerPerStop == \A s \in Stops : MarkersOnMap(s) <= 1

\* a selected marker and a background marker are on the map together
C1_Witness ==
  \E s \in SelectedOnMap, t \in BackgroundOnMap : s # t

\* C5: callbackDisplayTripStopTimes applies a response whatever trip was
\* selected last: when the stop times of a trip that is no longer the
\* selected one arrive with code 200, the first stop of that trip has a
\* selected marker on the map afterwards.
C5_StaleStopTimesApplied ==
  [][\A r \in Requests, times \in BOOLEAN, getTextThrows \in BOOLEAN :
       (/\ TripStopTimesResponse(r, OK,
              [null |-> FALSE, stops |-> TripStops(r.id), times |-> times],
              getTextThrows, TRUE)
        /\ r.id # lastTrip
        /\ TripStops(r.id) # <<>>)
       => TripStops(r.id)[1] \in SelectedOnMap']_vars

\* trip A was selected, then trip B; the stop times of B were displayed
\* before those of A; every response has been handled and stop s1, which
\* is a stop of A and not of B, has a selected marker on the map
C5_Witness ==
  /\ lastTrip = "B"
  /\ stopTimesHandled = <<"B", "A">>
  /\ pending = EmptyBag
  /\ "s1" \in SelectedOnMap
  /\ ~InSeq("s1", TripStops("B"))

\* C6 (as claimed): when selectTrip has returned, and when a 200
\* routepatterns response has been handled, no marker and no polyline is on
\* the map and the three collections are empty.
C6_SelectionClearsMap ==
  [][(\/ \E t \in Trips : tripTextSearchSubmit(t, TRUE)
      \/ \E r \in Requests, patterns \in PatternLists :
            PatternsResponse(r, OK, patterns, TRUE))
     => (/\ \A s \in Stops : MarkersOnMap(s) = 0
         /\ PolylinesOnMap = 0
         /\ stopMarkersSelected = EmptyMap
         /\ stopMarkersBackground = EmptyMap
         /\ existingPolylines = <<>>)']_vars

\* C7 (as claimed): once the 200 response to the request of the last map
\* move has been handled, no selected marker and no polyline that was on
\* the map at the move is still on the map.
C7_MoveDestroysSelected ==
  [][\A r \in Requests, stops \in StopLists :
       (StopsBackgroundResponse(r, OK, stops) /\ r.move = "latest")
       => (/\ \A s \in SelectedOnMap : ~stopMarkersSelected[s].old
           /\ \A i \in 1..Len(existingPolylines) :
                 ~(existingPolylines[i].on /\ existingPolylines[i].old)
           /\ \A x \in DOMAIN strayMarkers : ~(x.selected /\ x.old)
           /\ \A x \in DOMAIN strayPolylines : ~x.old)']_vars

\* C7 (amended): once the 200 response to the request of the last map move
\* has been handled, no background marker that was on the map at the move
\* is still on the map unless its stop is listed in the response; the
\* selected markers and the polylines are as they were before the response.
C7_MoveDestroysBackground ==
  [][\A r \in Requests, stops \in StopLists :
       (StopsBackgroundResponse(r, OK, stops) /\ r.move = "latest")
       => /\ \A s \in BackgroundOnMap' :
               stopMarkersBackground'[s].old => InSeq(s, stops)
          /\ \A x \in DOMAIN strayMarkers' :
               (~x.selected /\ x.old) => InSeq(x.stopId, stops)
          /\ UNCHANGED <<stopMarkersSelected, existingPolylines, strayPolylines>>]_vars

\* a background marker that was on the map at the last move has been taken
\* off it, and a selected marker and a polyline that were on the map at
\* that move still are
C7_Witness ==
  /\ \E s \in DOMAIN stopMarkersBackground :
        stopMarkersBackground[s].old /\ ~stopMarkersBackground[s].on
  /\ \E s \in SelectedOnMap : stopMarkersSelected[s].old
  /\ \E i \in 1..Len(existingPolylines) :
        existingPolylines[i].on /\ existingPolylines[i].old

\* C9 (as claimed): when callbackDisplayStopsBackground has handled a 200
\* response, every stop listed in the response has a marker on the map.
C9_ListedStopsOnMap ==
  [][\A r \in Requests, stops \in StopLists :
       StopsBackgroundResponse(r, OK, stops)
       => \A i \in 1..Len(stops) : MarkersOnMap(stops[i])' >= 1]_vars

\* C10: when callbackDisplayStopsBackground has handled a 200 response, no
\* background marker is on the map for a stop the response does not list,
\* and the selected markers, the polylines and boundsOfPolyLine are as
\* they were.
C10_BackgroundOnlyListed ==
  [][\A r \in Requests, stops \in StopLists :
       StopsBackgroundResponse(r, OK, stops)
       => /\ \A s \in BackgroundOnMap' : InSeq(s, stops)
          /\ \A x \in DOMAIN strayMarkers' : ~x.selected => InSeq(x.stopId, stops)
          /\ \A x \in DOMAIN strayMarkers' :
                x.selected => x \in DOMAIN strayMarkers
                              /\ strayMarkers'[x] = strayMarkers[x]
          /\ UNCHANGED <<stopMarkersSelected, existingPolylines, strayPolylines,
                         boundsOfPolyLine>>]_vars

\* a background marker was taken off the map (its stop was not listed)
\* while a selected marker and a polyline are on the map
C10_Witness ==
  /\ \E s \in DOMAIN stopMarkersBackground : ~stopMarkersBackground[s].on
  /\ SelectedOnMap # {}
  /\ \E i \in 1..Len(existingPolylines) : existingPolylines[i].on
  /\ boundsOfPolyLine # {}

\* C2: when one of the seven callbacks that check the response code is
\* given a code other than 200, the marker maps, the polylines, the bounds,
\* what is on the map, the info window and the page are as they were, and no
\* request is sent: the answered request is gone and no other has come.
C2_ErrorAborts ==
  [][\A r \in Requests, code \in Codes \ {OK} :
       (\/ \E stops \in StopLists : StopsResponse(r, code, stops, FALSE)
        \/ \E stops \in StopLists : StopsBackgroundResponse(r, code, stops)
        \/ \E patterns \in PatternLists : PatternsResponse(r, code, patterns, FALSE)
        \/ \E body \in StopTimesBodies(r.id, OK), getTextThrows \in BOOLEAN :
              TripStopTimesResponse(r, code, body, getTextThrows, FALSE)
        \/ \E body \in ShapeBodies(r.id, OK), fitBoundsThrows \in BOOLEAN :
              TripPolyLineResponse(r, code, body, fitBoundsThrows)
        \/ \E rowsNull \in BOOLEAN : TripRowsResponse(r, code, rowsNull)
        \/ StopInfoWindowResponse(r, code))
       => /\ UNCHANGED <<mapVars, domVars>>
          /\ pending' = Answered(r)]_vars

\* a trip is selected and every request has been answered, those of the
\* trip with an error: no marker is selected, no polyline is drawn and the
\* bottombar is hidden, while a background marker is on the map
C2_Witness ==
  /\ pending = EmptyBag
  /\ \E p \in SpanPaths(routeList) :
        routeList[p[1]].children[p[2]][p[3]][p[4]].className = "tripChoiceSelected"
  /\ stopMarkersSelected = EmptyMap
  /\ existingPolylines = <<>>
  /\ bottombar.display = "none"
  /\ BackgroundOnMap # {}

\* C3 (as claimed): when the callback of changeStopLocation or of saveData
\* is given a code other than 200, the text of edit_status is what it was.
C3_ErrorKeepsStatus ==
  [][\A r \in Requests, code \in Codes \ {OK} :
       (\E data \in StatusTexts(r.kind, code) : EditResponse(r, code, data))
       => edit'.status = edit.status]_vars

\* C4: when callbackDisplayRoutes is given a code other than 200, the
\* children of the routeList element are what they were and nothing else of
\* the page changes.
C4_RoutesErrorAborts ==
  [][\A r \in Requests, code \in Codes \ {OK}, routes \in RouteLists :
       RoutesResponse(r, code, routes)
       => UNCHANGED <<routeList, selectedRoute, bottombar, infoWindow, edit>>]_vars

\* the routes request has been answered and the list is empty: the answer
\* was an error, for the server lists two routes
C4_Witness ==
  /\ Of({"routes"}) = {}
  /\ routeList = <<>>
  /\ \A routes \in RouteLists : routes # <<>>

\* C8: in every reachable state at most one entry of the route list has
\* class routeChoiceSelected; when one has, it is the element route_<id> of
\* the id in selectedRoute; every other entry has class routeChoice.
C8_SingleSelectedRoute ==
  LET sel == {c \in 1..Len(routeList) :
                 routeList[c].className = "routeChoiceSelected"}
  IN /\ Cardinality(sel) <= 1
     /\ \A c \in sel : c = RouteIndex(routeList, selectedRoute)
     /\ \A c \in (1..Len(routeList)) \ sel : routeList[c].className = "routeChoice"

\* route R1 was selected, its patterns are still being fetched, and route
\* R2 has been selected since: R2 has the class and R1 has lost it
C8_Witness ==
  /\ Request("routepatterns", "R1") \in Requests
  /\ selectedRoute = "R2"
  /\ routeList[RouteIndex(routeList, "R2")].className = "routeChoiceSelected"
  /\ routeList[RouteIndex(routeList, "R1")].className = "routeChoice"

\* C11 (as claimed): clearMap, called in any reachable state, leaves no
\* marker and no polyline of the script on the map, the three collections
\* empty and boundsOfPolyLine null.
C11_ClearMapRemovesAll ==
  LET m == clearMap(MapState)
  IN /\ m.sel = EmptyMap /\ m.bg = EmptyMap /\ m.polys = <<>>
     /\ m.bounds = {}
     /\ m.stray = EmptyBag
     /\ m.strayPolys = EmptyBag

\* C14 (as claimed): when callbackDisplayPatterns has handled a 200
\* response, no request of selectTrip for the trip id null has been sent.
C14_NoNullTripSelected ==
  [][\A r \in Requests, patterns \in PatternLists :
       PatternsResponse(r, OK, patterns, FALSE)
       => \A q \in BagToSet(pending') : q.id # "null"]_vars

\* C15 (as claimed): at any time at most one tripInfo section is in the
\* route list.
C15_OneTripInfo ==
  \A c, d \in 1..Len(routeList) :
     /\ Len(routeList[c].children) <= 1
     /\ (routeList[c].children # <<>> /\ routeList[d].children # <<>>) => c = d

\* copy has been called
CopyCalled == copyResult.threw \/ "latlng_" \in DOMAIN copyResult.this

\* C12 (as claimed): what copy returned is a LabeledMarker with the position
\* and the options, label text, class and offset of the marker.
C12_CopyIsCopy ==
  CopyCalled =>
    /\ ~copyResult.threw
    /\ copyResult.this.latlng_ = labeledMarker.latlng_
    /\ copyResult.this.opts_ = labeledMarker.opts_
    /\ copyResult.this.labelText_ = labeledMarker.labelText_
    /\ copyResult.this.labelClass_ = labeledMarker.labelClass_
    /\ copyResult.this.labelOffset_ = labeledMarker.labelOffset_

\* C13: the label div is in the marker pane exactly while the map holds the
\* marker: then div_ is the one div of the pane, with the text and the class
\* of the label, and otherwise div_ is null, the pane is empty and no
\* listener is left; initialize makes a div that never existed before;
\* redraw finds a div.
C13_LabelDivWhileOnMap ==
  /\ [](Constructed =>
         /\ (mapOverlays # {}) <=> (labeledMarker.div_ # 0)
         /\ DOMAIN markerPane =
              IF labeledMarker.div_ # 0 THEN {labeledMarker.div_} ELSE {}
         /\ \A d \in DOMAIN markerPane :
               /\ markerPane[d].className = labeledMarker.labelClass_
               /\ markerPane[d].innerHTML = labeledMarker.labelText_
         /\ DOMAIN divListeners \subseteq DOMAIN markerPane)
  /\ [][/\ initialize => labeledMarker'.div_ \notin 0..divsCreated
        /\ (\E p \in DivPixels : redraw(p)) => labeledMarker.div_ # 0]_vars

\* the marker was added, removed and added again, and its second div has
\* been redrawn
C13_Witness ==
  /\ Constructed
  /\ labeledMarker.div_ = 2
  /\ DOMAIN markerPane = {2}
  /\ markerPane[2].style # <<>>
  /\ 2 \in DOMAIN divListeners

\* C16: a call of downloadUrl sends exactly one request; the callback of a
\* request runs at most once, for the request is gone once it is answered
\* and nothing sends it again; on a network error the request is gone, no
\* callback has run and the map and the page are as they were.
C16_OneRequestOneCallback ==
  [][/\ ((\E marker \in Clickable : DragEnd(marker)) \/ saveData)
          => BagCardinality(pending') = BagCardinality(pending) + 1
     /\ \A r \in Requests :
          /\ NetworkError(r)
               => pending' = Answered(r) /\ UNCHANGED <<mapVars, domVars>>
          /\ (\E code \in Codes : \E data \in StatusTexts(r.kind, code) :
                 EditResponse(r, code, data))
               => pending' = Answered(r)
          /\ (\E code \in Codes : \E stops \in StopBodies(code) :
                 StopsBackgroundResponse(r, code, stops))
               => pending' = Answered(r)
     /\ BagCardinality(pending') >= BagCardinality(pending) - 1]_vars

\* a marker was dragged and the request of its new location failed:
\* edit_status still reads "updating..."
C16_Witness ==
  /\ edit = [visibility |-> "visible", status |-> "updating..."]
  /\ Of({"setstoplocation"}) = {}

====
